---- MODULE Spec2Model ----
(***************************************************************************)
(* Model of the ticket tracker (FastAPI routes, pydantic schemas, the      *)
(* SQLAlchemy service layer and the "tickets" table).                      *)
(*                                                                         *)
(* Spec      : every HTTP request is one action (the whole handler, from   *)
(*             request validation to the serialised response).             *)
(* SpecConc  : requests are split into the steps of get_db and of the      *)
(*             service functions, two requests may be in flight at once.   *)
(***************************************************************************)
EXTENDS Integers, Sequences, FiniteSets, TLC

\* ---------------------------------------------------------------- bounds
\* highest id the store hands out before creation is cut off
MaxTickets == 2
\* number of requests started in the stepped specification
MaxRequests == 3

\* ---------------------------------------------------------------- values
\* Python None / JSON null / SQL NULL (texts never take this value)
None == "<None>"

Titles == {"Bug", "Crash"}
Descriptions == {"Fix crash"}
Statuses == {"open", "closed"}
Texts == Titles \cup Descriptions \cup Statuses

\* Column(String, default="open")
TicketStatusDefault == "open"

\* columns of the table "tickets"
Columns == {"id", "title", "description", "status"}

\* result of Query.first() on an empty result (Python None)
NoRow == [id |-> 0, title |-> None, description |-> None, status |-> None]

\* ids a request may name in its path
PathIds == 1..(MaxTickets + 1)

\* ------------------------------------------------------- request bodies
\* a JSON object: a function from the keys it carries to their values
Restrict(f, S) == [k \in (DOMAIN f) \cap S |-> f[k]]

\* a body carrying the keys S, each with one of the values offered for it
BodiesOver(S, offered) == {b \in [S -> Texts \cup {None}] : \A k \in S : b[k] \in offered[k]}

\* the body b with the undeclared key "id" added
WithId(b) == [k \in (DOMAIN b) \cup {"id"} |-> IF k = "id" THEN 99 ELSE b[k]]

\* bodies sent to POST /tickets/: valid ones, with and without the extra keys
\* "status" and "id", and invalid ones (a required key missing or null)
CreateBodies ==
  LET offered == [title |-> Titles, description |-> Descriptions, status |-> {"closed"}]
      plain == BodiesOver({"title", "description"}, offered)
      valid == plain \cup BodiesOver({"title", "description", "status"}, offered)
                     \cup {WithId(b) : b \in plain}
      invalid == BodiesOver({}, offered) \cup BodiesOver({"title"}, offered)
                 \cup BodiesOver({"title", "description"},
                                 [offered EXCEPT !.title = {None}])
  IN valid \cup invalid

\* bodies sent to PUT /tickets/{id}: every subset of the three fields, an
\* explicit null included, and one body with the undeclared key "id"
UpdateBodies ==
  LET offered == [title |-> {"Crash"}, description |-> {"Fix crash", None},
                  status |-> {"closed"}]
  IN UNION {BodiesOver(S, offered) : S \in SUBSET {"title", "description", "status"}}
       \cup {WithId(b) : b \in BodiesOver({"status"}, offered)}

EmptyBody == Restrict(NoRow, {})

\* ------------------------------------------------------------- schemas
\* fields declared by TicketCreate (pydantic ignores undeclared keys)
TicketCreateFields_AllowExtra == {"title", "description", "status"}

TicketCreateFields == {"title", "description"}

\* TicketCreate(**body) validates: title and description present and text
TicketCreateValid(body) ==
  \A k \in {"title", "description"} : k \in DOMAIN body /\ body[k] # None

\* TicketCreate.model_dump()
TicketCreateDump(body) == Restrict(body, TicketCreateFields)

\* fields declared by TicketUpdate
TicketUpdateFields == {"title", "description", "status"}

\* TicketUpdate.model_dump(exclude_unset=True): the declared keys the body carries
TicketUpdateDump(body) == Restrict(body, TicketUpdateFields)

\* TicketOut validation of an entity: id int, title/description/status str
TicketOutValid(row) ==
  /\ row.id \in Int
  /\ row.title # None
  /\ row.description # None
  /\ row.status # None

\* ------------------------------------------------------------- service
get_all_tickets(db) == db

get_ticket_AnyRow(db, ticket_id) ==
  IF db # {} THEN CHOOSE t \in db : \A u \in db : t.id <= u.id ELSE NoRow

get_ticket(db, ticket_id) ==
  IF \E t \in db : t.id = ticket_id
    THEN CHOOSE t \in db : t.id = ticket_id
    ELSE NoRow

\* Ticket(**ticket.model_dump()) inserted under the id the store assigns
create_ticket(newid, ticket) ==
  [c \in Columns |->
     IF c = "id" THEN newid
     ELSE IF c \in DOMAIN ticket THEN ticket[c]
     ELSE IF c = "status" THEN TicketStatusDefault
     ELSE None]

\* for field, value in ticket.model_dump(exclude_unset=True).items(): setattr(...)
update_ticket(db_ticket, ticket) ==
  [c \in Columns |-> IF c \in DOMAIN ticket THEN ticket[c] ELSE db_ticket[c]]

\* db.delete(db_ticket); db.commit()
delete_ticket(db, db_ticket) == db \ {db_ticket}

\* --------------------------------------------------------------- state
VARIABLES
  tickets,      \* rows of the table "tickets"
  assigned,     \* ids handed out so far (history)
  created,      \* create responses whose ticket no request has updated or deleted since (history)
  last,         \* the last request and its response (sequential handlers)
  req,          \* requests in flight, by worker (stepped handlers)
  sessions,     \* sessions currently open
  nextSession,  \* next session the session factory returns
  started,      \* number of requests started (stepped handlers)
  commits       \* serial numbers of the update requests, in commit order (history)

vars == <<tickets, assigned, created, last, req, sessions, nextSession, started, commits>>

concVars == <<req, sessions, nextSession, started, commits>>

DetailNotFound == "Ticket not found"

\* the id the store assigns to an inserted row: id is a plain Integer primary
\* key (no AUTOINCREMENT), so the row gets the highest id in the table plus one,
\* and 1 in an empty table
NewId(db) ==
  IF db = {} THEN 1
  ELSE (CHOOSE i \in {t.id : t \in db} : \A t \in db : t.id <= i) + 1

\* response of a route with response_model=TicketOut returning `row`
RespondTicket(op, ticket_id, body, okcode, row) ==
  IF TicketOutValid(row)
    THEN [op |-> op, ticket_id |-> ticket_id, body |-> body, code |-> okcode,
          ticket |-> row, list |-> {}, detail |-> ""]
    ELSE [op |-> op, ticket_id |-> ticket_id, body |-> body, code |-> 500,
          ticket |-> NoRow, list |-> {}, detail |-> "Internal Server Error"]

\* raise HTTPException(status_code=404, detail="Ticket not found")
RespondNotFound(op, ticket_id, body) ==
  [op |-> op, ticket_id |-> ticket_id, body |-> body, code |-> 404,
   ticket |-> NoRow, list |-> {}, detail |-> DetailNotFound]

NoRequest ==
  [op |-> "none", ticket_id |-> 0, body |-> EmptyBody, code |-> 0,
   ticket |-> NoRow, list |-> {}, detail |-> ""]

Idle == [pc |-> "idle", op |-> "none", ticket_id |-> 0, body |-> EmptyBody,
         session |-> 0, loaded |-> NoRow, pending |-> NoRow, code |-> 0,
         ticket |-> NoRow, n |-> 0, fault |-> FALSE]

Workers == {1, 2}

Init ==
  /\ tickets = {}
  /\ assigned = {}
  /\ created = {}
  /\ last = NoRequest
  /\ req = [w \in Workers |-> Idle]
  /\ sessions = {}
  /\ nextSession = 1
  /\ started = 0
  /\ commits = <<>>

\* ------------------------------------------- sequential request handlers
\* POST /tickets/
Create(body) ==
  /\ IF ~TicketCreateValid(body)
       THEN /\ last' = [NoRequest EXCEPT !.op = "create", !.body = body, !.code = 422,
                                         !.detail = "validation error"]
            /\ UNCHANGED <<tickets, assigned, created>>
       ELSE /\ NewId(tickets) <= MaxTickets
            /\ LET db_ticket == create_ticket(NewId(tickets), TicketCreateDump(body)) IN
                 /\ tickets' = tickets \cup {db_ticket}
                 /\ assigned' = assigned \cup {db_ticket.id}
                 /\ created' = created \cup {db_ticket}
                 /\ last' = RespondTicket("create", 0, body, 201, db_ticket)
  /\ UNCHANGED concVars

\* GET /tickets/
ListAll ==
  /\ last' = IF \A t \in get_all_tickets(tickets) : TicketOutValid(t)
               THEN [NoRequest EXCEPT !.op = "list", !.code = 200,
                                      !.list = get_all_tickets(tickets)]
               ELSE [NoRequest EXCEPT !.op = "list", !.code = 500,
                                      !.detail = "Internal Server Error"]
  /\ UNCHANGED <<tickets, assigned, created>>
  /\ UNCHANGED concVars

\* GET /tickets/{ticket_id}
Get(ticket_id) ==
  /\ LET ticket == get_ticket(tickets, ticket_id) IN
       last' = IF ticket = NoRow
                 THEN RespondNotFound("get", ticket_id, EmptyBody)
                 ELSE RespondTicket("get", ticket_id, EmptyBody, 200, ticket)
  /\ UNCHANGED <<tickets, assigned, created>>
  /\ UNCHANGED concVars

\* the route's `if not updated: raise HTTPException(404)`
UpdateFound_Always(updated) == TRUE

UpdateFound(updated) == updated # NoRow

\* PUT /tickets/{ticket_id}
Update(ticket_id, body) ==
  /\ LET db_ticket == get_ticket(tickets, ticket_id)
         updated == IF db_ticket = NoRow THEN NoRow
                    ELSE update_ticket(db_ticket, TicketUpdateDump(body)) IN
       /\ tickets' = IF db_ticket = NoRow THEN tickets
                     ELSE (tickets \ {db_ticket}) \cup {updated}
       /\ last' = IF ~UpdateFound(updated)
                    THEN RespondNotFound("update", ticket_id, body)
                    ELSE RespondTicket("update", ticket_id, body, 200, updated)
  /\ created' = {r \in created : r.id # ticket_id}
  /\ UNCHANGED assigned
  /\ UNCHANGED concVars

\* DELETE /tickets/{ticket_id}
Delete(ticket_id) ==
  /\ LET db_ticket == get_ticket(tickets, ticket_id) IN
       /\ tickets' = IF db_ticket = NoRow THEN tickets
                     ELSE delete_ticket(tickets, db_ticket)
       /\ last' = IF db_ticket = NoRow
                    THEN RespondNotFound("delete", ticket_id, EmptyBody)
                    ELSE RespondTicket("delete", ticket_id, EmptyBody, 200, db_ticket)
  /\ created' = {r \in created : r.id # ticket_id}
  /\ UNCHANGED assigned
  /\ UNCHANGED concVars

Next ==
  \/ \E body \in CreateBodies : Create(body)
  \/ ListAll
  \/ \E ticket_id \in PathIds : Get(ticket_id)
  \/ \E ticket_id \in PathIds, body \in UpdateBodies : Update(ticket_id, body)
  \/ \E ticket_id \in PathIds : Delete(ticket_id)

Spec == Init /\ [][Next]_vars

\* =================================================================
\* Stepped handlers: get_db, the service calls and the commit as steps
\* =================================================================
\* bodies of the stepped requests
ConcCreateBodies == BodiesOver({"title", "description"},
                               [title |-> {"Bug"}, description |-> Descriptions])

ConcUpdateBodies ==
  BodiesOver({"title"}, [title |-> {"Bug", "Crash", None}])
    \cup BodiesOver({"status"}, [status |-> {"closed"}])

ConcIds == 1..2

\* SessionLocal(): the session factory returns a session of its own per call
SessionLocal == nextSession

\* pcs at which the request holds a session it has not closed
InFlight == {"open", "loaded", "dirty", "committed", "returned", "raised"}

\* get_db: `finally: db.close()` runs when the handler returned and when it raised
get_db_closes_OnReturnOnly(pc) == pc = "returned"

get_db_closes(pc) == pc \in {"returned", "raised"}

\* creates that hold a session and have not inserted yet
PendingCreates == {w \in Workers : req[w].op = "create" /\ req[w].pc = "open"}

\* the response of the handler of worker w: the entity through TicketOut
Return(w, okcode, row) ==
  IF TicketOutValid(row)
    THEN [req[w] EXCEPT !.pc = "returned", !.code = okcode, !.ticket = row]
    ELSE [req[w] EXCEPT !.pc = "raised", !.code = 500]

\* raise HTTPException(status_code=404, detail="Ticket not found")
Raise404(w) == [req[w] EXCEPT !.pc = "raised", !.code = 404]

\* an exception of the store or of the ORM propagates out of the handler
Raise500(w) == [req[w] EXCEPT !.pc = "raised", !.code = 500]

\* columns the flush writes: those whose value differs from the loaded one
ChangedColumns(loaded, pending) == {f \in {"title", "description", "status"} : pending[f] # loaded[f]}

\* UPDATE tickets SET <changed columns> WHERE id = <loaded id>
FlushUpdate(row, loaded, pending) ==
  [c \in Columns |-> IF c \in ChangedColumns(loaded, pending) THEN pending[c] ELSE row[c]]

\* the framework resolves Depends(get_db): db = SessionLocal(); yield db
Begin(w, op, ticket_id, body) ==
  /\ req[w].pc \in {"idle", "done"}
  /\ started < MaxRequests
  /\ op = "create" => NewId(tickets) + Cardinality(PendingCreates) <= MaxTickets
  /\ req' = [req EXCEPT ![w] = [Idle EXCEPT !.pc = "open", !.op = op,
                                            !.ticket_id = ticket_id, !.body = body,
                                            !.session = SessionLocal, !.n = started + 1]]
  /\ sessions' = sessions \cup {SessionLocal}
  /\ nextSession' = nextSession + 1
  /\ started' = started + 1
  /\ UNCHANGED <<tickets, assigned, created, last, commits>>

\* create_ticket: db.add(db_ticket); db.commit() inserts the row and ends the
\* transaction; the entity now carries the id the store assigned
CommitCreate(w) ==
  /\ req[w].pc = "open" /\ req[w].op = "create"
  /\ LET db_ticket == create_ticket(NewId(tickets), TicketCreateDump(req[w].body)) IN
       /\ tickets' = tickets \cup {db_ticket}
       /\ assigned' = assigned \cup {db_ticket.id}
       /\ req' = [req EXCEPT ![w] = [req[w] EXCEPT !.pc = "committed",
                                                   !.loaded = db_ticket,
                                                   !.pending = db_ticket]]
  /\ UNCHANGED <<created, last, sessions, nextSession, started, commits>>

\* create_ticket / update_ticket: db.refresh(db_ticket) reads the row as it is
\* now (it raises when the row is gone); the route answers with what it read
Refresh(w) ==
  /\ req[w].pc = "committed" /\ req[w].op \in {"create", "update"}
  /\ LET row == get_ticket(tickets, req[w].loaded.id) IN
       req' = [req EXCEPT ![w] =
                 IF row = NoRow THEN Raise500(w)
                 ELSE Return(w, IF req[w].op = "create" THEN 201 ELSE 200, row)]
  /\ UNCHANGED <<tickets, assigned, created, last, sessions, nextSession,
                 started, commits>>

\* list_all route
ListStep(w) ==
  /\ req[w].pc = "open" /\ req[w].op = "list"
  /\ req' = [req EXCEPT ![w] =
               IF \A t \in get_all_tickets(tickets) : TicketOutValid(t)
                 THEN [req[w] EXCEPT !.pc = "returned", !.code = 200]
                 ELSE Raise500(w)]
  /\ UNCHANGED <<tickets, assigned, created, last, sessions, nextSession,
                 started, commits>>

\* get route
GetStep(w) ==
  /\ req[w].pc = "open" /\ req[w].op = "get"
  /\ LET ticket == get_ticket(tickets, req[w].ticket_id) IN
       req' = [req EXCEPT ![w] = IF ticket = NoRow THEN Raise404(w)
                                 ELSE Return(w, 200, ticket)]
  /\ UNCHANGED <<tickets, assigned, created, last, sessions, nextSession,
                 started, commits>>

\* update_ticket / delete_ticket: db_ticket = get_ticket(db, ticket_id)
Lookup(w) ==
  /\ req[w].pc = "open" /\ req[w].op \in {"update", "delete"}
  /\ LET db_ticket == get_ticket(tickets, req[w].ticket_id) IN
       req' = [req EXCEPT ![w] = IF db_ticket = NoRow THEN Raise404(w)
                                 ELSE [req[w] EXCEPT !.pc = "loaded",
                                                     !.loaded = db_ticket,
                                                     !.pending = db_ticket]]
  /\ UNCHANGED <<tickets, assigned, created, last, sessions, nextSession,
                 started, commits>>

\* update_ticket: the setattr loop on the loaded entity
Assign(w) ==
  /\ req[w].pc = "loaded" /\ req[w].op = "update"
  /\ req' = [req EXCEPT ![w] =
               [req[w] EXCEPT !.pc = "dirty",
                              !.pending = update_ticket(req[w].loaded,
                                                        TicketUpdateDump(req[w].body))]]
  /\ UNCHANGED <<tickets, assigned, created, last, sessions, nextSession,
                 started, commits>>

\* update_ticket: db.commit() flushes the changed columns and ends the
\* transaction. The UPDATE raises when its row is gone; with no changed column
\* no UPDATE is sent and the commit succeeds whatever the table holds
CommitUpdate(w) ==
  /\ req[w].pc = "dirty" /\ req[w].op = "update"
  /\ LET row == get_ticket(tickets, req[w].loaded.id)
         written == FlushUpdate(row, req[w].loaded, req[w].pending) IN
       IF ChangedColumns(req[w].loaded, req[w].pending) = {}
         THEN /\ commits' = Append(commits, req[w].n)
              /\ req' = [req EXCEPT ![w].pc = "committed"]
              /\ UNCHANGED tickets
         ELSE IF row = NoRow
           THEN /\ req' = [req EXCEPT ![w] = Raise500(w)]
                /\ UNCHANGED <<tickets, commits>>
           ELSE /\ tickets' = (tickets \ {row}) \cup {written}
                /\ commits' = Append(commits, req[w].n)
                /\ req' = [req EXCEPT ![w].pc = "committed"]
  /\ UNCHANGED <<assigned, created, last, sessions, nextSession, started>>

\* delete_ticket: db.delete(db_ticket); db.commit(); the entity keeps the
\* attributes it was loaded with
CommitDelete(w) ==
  /\ req[w].pc = "loaded" /\ req[w].op = "delete"
  /\ tickets' = {t \in tickets : t.id # req[w].loaded.id}
  /\ req' = [req EXCEPT ![w] = Return(w, 200, req[w].loaded)]
  /\ UNCHANGED <<assigned, created, last, sessions, nextSession, started,
                 commits>>

\* a store-level failure inside the service call propagates as a server error
Fail(w) ==
  /\ req[w].pc \in {"open", "loaded", "dirty", "committed"}
  /\ req' = [req EXCEPT ![w] = [Raise500(w) EXCEPT !.fault = TRUE]]
  /\ UNCHANGED <<tickets, assigned, created, last, sessions, nextSession,
                 started, commits>>

\* get_db resumes after the yield: db.close()
Close(w) ==
  /\ get_db_closes(req[w].pc)
  /\ sessions' = sessions \ {req[w].session}
  /\ req' = [req EXCEPT ![w].pc = "done"]
  /\ UNCHANGED <<tickets, assigned, created, last, nextSession, started,
                 commits>>

\* the steps the worker thread of a request takes by itself
Run(w) ==
  \/ CommitCreate(w)
  \/ Refresh(w)
  \/ ListStep(w)
  \/ GetStep(w)
  \/ Lookup(w)
  \/ Assign(w)
  \/ CommitUpdate(w)
  \/ CommitDelete(w)
  \/ Close(w)

NextConc ==
  \/ \E w \in Workers, body \in ConcCreateBodies : Begin(w, "create", 0, body)
  \/ \E w \in Workers : Begin(w, "list", 0, EmptyBody)
  \/ \E w \in Workers, i \in ConcIds : Begin(w, "get", i, EmptyBody)
  \/ \E w \in Workers, i \in ConcIds, body \in ConcUpdateBodies : Begin(w, "update", i, body)
  \/ \E w \in Workers, i \in ConcIds : Begin(w, "delete", i, EmptyBody)
  \/ \E w \in Workers : CommitCreate(w)
  \/ \E w \in Workers : Refresh(w)
  \/ \E w \in Workers : ListStep(w)
  \/ \E w \in Workers : GetStep(w)
  \/ \E w \in Workers : Lookup(w)
  \/ \E w \in Workers : Assign(w)
  \/ \E w \in Workers : CommitUpdate(w)
  \/ \E w \in Workers : CommitDelete(w)
  \/ \E w \in Workers : Fail(w)
  \/ \E w \in Workers : Close(w)

\* a request thread that can take a step eventually takes it
SpecConc == Init /\ [][NextConc]_vars /\ \A w \in Workers : WF_vars(Run(w))

\* =================================================================
\* Properties of the sequential handlers (Spec)
\* =================================================================
Fields == {"title", "description", "status"}

Ids(db) == {t.id : t \in db}

\* C1: a valid POST /tickets/ answers 201 with a ticket carrying the input's
\* title and description, status "open" and an id no persisted ticket holds;
\* exactly that ticket is added to the store.
C1_CreateContract ==
  [][(last'.op = "create" /\ TicketCreateValid(last'.body)) =>
       /\ last'.code = 201
       /\ last'.ticket.title = last'.body.title
       /\ last'.ticket.description = last'.body.description
       /\ last'.ticket.status = "open"
       /\ last'.ticket.id \in Int
       /\ last'.ticket.id \notin Ids(tickets)
       /\ tickets' = tickets \cup {last'.ticket}
       /\ tickets' # tickets]_vars

\* a create whose body carried an extra "status" answered 201 on a non-empty store
C1_Witness ==
  /\ last.op = "create"
  /\ last.code = 201
  /\ "status" \in DOMAIN last.body
  /\ Cardinality(tickets) = 2

\* C2: PUT /tickets/{id} on an existing id answers 200 with a ticket in which
\* every supplied field has the supplied value and every other field, and the
\* id, has its value from before the request.
C2_PartialUpdate ==
  [][(last'.op = "update" /\ get_ticket(tickets, last'.ticket_id) # NoRow) =>
       LET before == get_ticket(tickets, last'.ticket_id) IN
         /\ last'.code = 200
         /\ last'.ticket.id = before.id
         /\ \A f \in Fields :
              last'.ticket[f] = IF f \in DOMAIN last'.body THEN last'.body[f]
                                ELSE before[f]]_vars

\* C3: every persisted ticket has a non-null id, title, description and status.
C3_NonNullColumns ==
  \A t \in tickets : t.id \in Int /\ \A f \in Fields : t[f] # None

\* C4: GET, PUT and DELETE on an id no persisted ticket has answer 404 with
\* detail "Ticket not found" and leave the store unchanged.
C4_NotFound ==
  [][(last'.op \in {"get", "update", "delete"}
        /\ last'.ticket_id \notin Ids(tickets)) =>
       /\ last'.code = 404
       /\ last'.detail = "Ticket not found"
       /\ tickets' = tickets]_vars

\* an update with a non-empty body was answered 404 while the store held tickets
C4_Witness ==
  /\ last.op = "update"
  /\ last.code = 404
  /\ DOMAIN last.body # {}
  /\ tickets # {}
  /\ last.ticket_id \notin Ids(tickets)

\* C5: DELETE on an existing id answers 200 with the ticket as it was before
\* removal and removes the record; GET, PUT and DELETE on an id that is not
\* in the store answer 404.
C5_DeleteReturnsOnce ==
  [][/\ (last'.op = "delete" /\ last'.ticket_id \in Ids(tickets)) =>
          /\ last'.code = 200
          /\ last'.ticket = get_ticket(tickets, last'.ticket_id)
          /\ last'.ticket_id \notin Ids(tickets')
     /\ (last'.op \in {"get", "update", "delete"}
           /\ last'.ticket_id \notin Ids(tickets)) => last'.code = 404]_vars

C7_ReadAfterCreate ==
  (last.op = "get" /\ last.ticket_id \in Ids(created)) =>
    /\ last.code = 200
    /\ last.ticket \in created
    /\ last.ticket.id = last.ticket_id

\* the second of two tickets was fetched unmodified
C7_Witness ==
  /\ last.op = "get"
  /\ last.code = 200
  /\ last.ticket_id = 2
  /\ last.ticket \in created
  /\ Cardinality(tickets) = 2

\* C8: GET /tickets/ answers 200 with all persisted tickets, each valid
\* against the output shape.
C8_ListSucceeds ==
  last.op = "list" =>
    /\ last.code = 200
    /\ last.list = tickets
    /\ \A t \in last.list : TicketOutValid(t)

\* =================================================================
\* Properties of the stepped handlers (SpecConc)
\* =================================================================
\* C9: every request holds a session of its own from get_db until the handler
\* has returned or raised, and that session is eventually closed on every
\* path, the 404 paths and a failure inside the service call included.
C9_SessionReleased ==
  /\ [](\A w \in Workers : req[w].pc \in InFlight => req[w].session \in sessions)
  /\ [](\A w \in Workers : req[w].pc = "done" => req[w].session \notin sessions)
  /\ [](\A w1, w2 \in Workers :
          (w1 # w2 /\ req[w1].pc # "idle" /\ req[w2].pc # "idle") =>
            req[w1].session # req[w2].session)
  /\ \A w \in Workers : (req[w].pc \in InFlight) ~> (req[w].pc = "done")

\* an update that failed with a server error has closed its session while the
\* other request still holds its own
C9_Witness ==
  \E w1, w2 \in Workers :
    /\ req[w1].pc = "done" /\ req[w1].op = "update" /\ req[w1].code = 500
    /\ req[w1].session \notin sessions
    /\ req[w2].pc \in InFlight
    /\ req[w2].session \in sessions

\* the update request of worker w has committed
Committed(w) == \E i \in DOMAIN commits : commits[i] = req[w].n

\* the request of worker w has been answered
Answered(w) == req[w].pc \in {"returned", "raised", "done"}

\* the commit of worker w1 came before the commit of worker w2
CommitsBefore(w1, w2) ==
  \E i, j \in DOMAIN commits : i < j /\ commits[i] = req[w1].n /\ commits[j] = req[w2].n

\* C10: two update requests on the same existing id, interleaved in any
\* order, both answer 200 and every field both supplied ends with the value
\* of the request that committed last. Stated for requests that supply text
\* (no null) to a ticket without null columns and that met no store failure.
C10_LastCommitWins ==
  \A w1, w2 \in Workers :
    (/\ req[w1].op = "update" /\ req[w2].op = "update"
     /\ req[w1].ticket_id = req[w2].ticket_id
     /\ Committed(w1) /\ Committed(w2) /\ CommitsBefore(w1, w2)
     /\ Answered(w1) /\ Answered(w2)
     /\ ~req[w1].fault /\ ~req[w2].fault
     /\ \A f \in DOMAIN req[w1].body : req[w1].body[f] # None
     /\ \A f \in DOMAIN req[w2].body : req[w2].body[f] # None
     /\ TicketOutValid(req[w1].loaded) /\ TicketOutValid(req[w2].loaded)) =>
      /\ req[w1].code = 200
      /\ req[w2].code = 200
      /\ \A f \in DOMAIN TicketUpdateDump(req[w1].body)
                    \cap DOMAIN TicketUpdateDump(req[w2].body) :
           get_ticket(tickets, req[w2].ticket_id)[f] = req[w2].body[f]

====
